---- MODULE Spec2Model ----
\* Model of deepvariant/util/io/vcf.py: the NativeVcfReader / NativeVcfWriter
\* wrappers around the native VCF reader and writer, used inside a `with` scope,
\* and the VcfReader / VcfWriter classes that choose between them and the
\* record-container implementation. The wrappers are translated from vcf.py.
\* The native reader and writer (deepvariant.util.python.vcf_reader /
\* vcf_writer) and the GenomicsReader / GenomicsWriter base classes with their
\* dispatching subclasses are not part of vcf.py; their behaviour is taken from
\* the specification text (sections 4.1 - 4.6, 5, 6 and 7).
EXTENDS Integers, Sequences, FiniteSets, TLC

\* ---------------------------------------------------------------- state
VARIABLES
  kind,        \* "reader" or "writer": the class the scope is opened on
  file,        \* the record lines of the input file
  fileHeader,  \* the header block of the input file
  hasIndex,    \* whether an index file lies next to the input file
  pc,          \* "start", "body" (inside the with block), "exited"
  reader,      \* the NativeVcfReader instance
  writer,      \* the NativeVcfWriter instance
  seqObj,      \* the sequence the last iterate() or query() returned
  outcomes,    \* what the pulls from seqObj gave, in order
  out,         \* the record lines of the output file
  raised,      \* the error the last call raised, "none" if it returned
  observed,    \* the error the caller of the with statement sees, once exited
  scopeErr,    \* the error in flight when the scope exited
  closeFault,  \* whether the close at scope exit hit an I/O fault
  reclosed,    \* whether __exit__ has run on an instance that was already closed
  args,        \* the arguments the caller gave: to the constructor, to the last query or write
  outHeader,   \* the header block of the output file
  other,       \* the second reader instance, while the first one is running
  dispatch     \* the VcfReader / VcfWriter made for a path: the implementation it chose

vars ==
  <<kind, file, fileHeader, hasIndex, pc, reader, writer, seqObj, outcomes, out,
    raised, observed, scopeErr, closeFault, reclosed, args, outHeader, other,
    dispatch>>

\* ---------------------------------------------------------------- bounds
MaxRecords == 3     \* longest input file, in record lines
MaxQueryRecords == 2  \* longest indexed input file of the region-query specification
MaxPos == 2         \* largest start position of a record
MaxLen == 2         \* longest reference allele
MaxSamples == 1     \* largest number of samples in a header
MaxWrites == 2      \* most write() calls modelled on one writer
MaxExtensions == 2  \* most extensions of a path

\* ---------------------------------------------------------------- values
\* The eight fixed columns CHROM .. INFO of a record line.
FixedColumns == 8

Contigs == {"chr1", "chr2"}

\* chr1 sorts before chr2 in the file (contig declaration order).
ContigRank(c) == IF c = "chr1" THEN 1 ELSE 2

\* The text of an optional FORMAT field of a line: not present, a token that
\* decodes, or a token that does not decode.
FieldTexts == {"absent", "good", "bad"}

\* The missing state of an optional number, distinct from every number.
Missing == -1

\* Quality scores, in hundredths: missing, 0.00 and 0.05.
Quals == {Missing, 0, 5}

\* The values of an integer INFO field: missing and 0.
Infos == {Missing, 0}

\* The text of a number in a record line: "." is the missing-value token.
NumberText(n) ==
  CASE n = Missing -> "."
    [] n = 0 -> "0"
    [] n = 5 -> "0.05"
    [] n = 10 -> "0.1"

NumberTexts == {NumberText(n) : n \in {Missing, 0, 5, 10}}

\* The number a token of a record line decodes to.
ParseNumber(t) ==
  IF t = "." THEN Missing
  ELSE CHOOSE n \in {0, 5, 10} : NumberText(n) = t

\* A record line of the input file. cols is its number of tab-separated columns.
WellFormedLines ==
  [cols : {FixedColumns}, contig : Contigs, pos : 1..MaxPos, len : 1..MaxLen,
   qual : NumberTexts, info : NumberTexts, gq : FieldTexts, gl : FieldTexts]

MalformedLine ==
  [cols |-> FixedColumns - 1, contig |-> "chr1", pos |-> 1, len |-> 1,
   qual |-> ".", info |-> ".", gq |-> "absent", gl |-> "absent"]

\* The header of a file or of a writer: its ordered sample names, here their count.
Headers == [samples : 0..MaxSamples]

\* variants_pb2.VcfHeader(): the default header, with no sample.
DefaultHeader == [samples |-> 0]

\* The header block of an input file that does not parse.
CorruptHeader == [samples |-> -1]

NoVariant ==
  [contig |-> "chr1", pos |-> 0, len |-> 0, qual |-> Missing, info |-> Missing,
   calls |-> 0, gq |-> "none", gl |-> "none"]

\* A genomic region [start, end) of a contig.
Regions ==
  {r \in [contig : Contigs, start : 1..MaxPos, end : 2..(MaxPos + 1)] : r.start < r.end}

NoRegion == [contig |-> "chr1", start |-> 0, end |-> 0]

\* ---------------------------------------------------------------- parser
\* The value a FORMAT field gets in a genotype call: an excluded field is
\* skipped (its text is never looked at), otherwise its text is decoded.
FieldValue(text, exclude) ==
  IF exclude THEN "none"
  ELSE IF text = "good" THEN "value" ELSE "none"

\* Whether decoding this field of the line raises.
FieldFails(text, exclude) == ~exclude /\ text = "bad"

\* The number of per-sample columns of a line or of a header line with cols
\* columns: those after the eight fixed columns and the FORMAT column.
SampleColumns(cols) == IF cols <= FixedColumns THEN 0 ELSE cols - (FixedColumns + 1)

\* parse_record(line, header) under the reader's field selection.
parse_record(line, fields) ==
  IF line.cols < FixedColumns
    THEN [err |-> "ParseError", v |-> NoVariant]
  ELSE IF FieldFails(line.gq, fields.exclude_genotype_quality)
          \/ FieldFails(line.gl, fields.exclude_genotype_likelihood)
    THEN [err |-> "ParseError", v |-> NoVariant]
  ELSE [err |-> "none",
        v |-> [contig |-> line.contig, pos |-> line.pos, len |-> line.len,
               qual |-> ParseNumber(line.qual), info |-> ParseNumber(line.info),
               calls |-> SampleColumns(line.cols),
               gq |-> FieldValue(line.gq, fields.exclude_genotype_quality),
               gl |-> FieldValue(line.gl, fields.exclude_genotype_likelihood)]]

\* Whether [pos, pos+len) of a record overlaps the region.
Overlaps(v, region) ==
  /\ v.contig = region.contig
  /\ v.pos < region.end
  /\ region.start < v.pos + v.len

\* ---------------------------------------------------------------- native reader
\* The native reader behind NativeVcfReader._reader. id tells one native reader
\* from another; state is one of "Closed", "OpenUnindexed", "OpenIndexed";
\* handles counts the file and index handles it holds, releases the times it
\* has released them.
NoNativeReader ==
  [id |-> 0, state |-> "Closed", options |-> [index_mode |-> "DONT_USE_INDEX",
                                    desired_format_entries |->
                                      [exclude_genotype_quality |-> FALSE,
                                       exclude_genotype_likelihood |-> FALSE]],
   header |-> CorruptHeader, handles |-> 0, releases |-> 0, exc_seen |-> "none"]

\* The identity of the next native reader: none in use has it.
FreshId == other.reader.reader_.id + 1

\* vcf_reader.VcfReader.from_file: parses the header block; a header that does
\* not parse is fatal and leaves nothing acquired. The index is looked for only
\* when the options ask for it, and its absence is no error here. Each call
\* makes a native reader of its own, with its own handles.
from_file(hdr, indexed, options) ==
  IF hdr = CorruptHeader
    THEN [err |-> "ParseError", reader |-> NoNativeReader]
  ELSE LET idx == options.index_mode = "INDEX_BASED_ON_FILENAME" /\ indexed
       IN [err |-> "none",
           reader |-> [id |-> FreshId,
                       state |-> IF idx THEN "OpenIndexed" ELSE "OpenUnindexed",
                       options |-> options,
                       header |-> hdr,
                       handles |-> IF idx THEN 2 ELSE 1,
                       releases |-> 0,
                       exc_seen |-> "none"]]

\* A lazy sequence handed out by iterate() or query(): cand is the set of line
\* numbers it visits, cursor the last line it has visited, open whether it still
\* holds its per-query resources.
NoSeq ==
  [exists |-> FALSE, src |-> "none", region |-> NoRegion, cand |-> {},
   cursor |-> 0, open |-> FALSE]

\* The native reader's iterate(): every line of the file, from the first.
Native_iterate(nr, nlines) ==
  IF nr.state = "Closed"
    THEN [err |-> "IOError", seq |-> NoSeq]
  ELSE [err |-> "none",
        seq |-> [exists |-> TRUE, src |-> "iterate", region |-> NoRegion,
                 cand |-> 1..nlines, cursor |-> 0, open |-> TRUE]]

\* The native reader's query(region): legal only with an index; cand is the
\* index's answer for the region.
Native_query(nr, region, cand) ==
  IF nr.state = "Closed"
    THEN [err |-> "IOError", seq |-> NoSeq]
  ELSE IF nr.state # "OpenIndexed"
    THEN [err |-> "ConfigurationError", seq |-> NoSeq]
  ELSE [err |-> "none",
        seq |-> [exists |-> TRUE, src |-> "query", region |-> region,
                 cand |-> cand, cursor |-> 0, open |-> TRUE]]

\* The first candidate line after line i that the sequence stops at: a line that
\* does not parse, or a record it yields (for a query, one that passes the final
\* overlap check). 0 when there is none.
RECURSIVE NextStop(_, _, _, _)
NextStop(seq, lines, fields, i) ==
  IF i >= Len(lines) THEN 0
  ELSE LET j == i + 1
           r == parse_record(lines[j], fields)
       IN IF j \notin seq.cand THEN NextStop(seq, lines, fields, j)
          ELSE IF r.err # "none" THEN j
          ELSE IF seq.src = "query" /\ ~Overlaps(r.v, seq.region)
            THEN NextStop(seq, lines, fields, j)
          ELSE j

\* One pull from a sequence. done: the sequence is exhausted (StopIteration).
Native_next(nr, seq, lines) ==
  IF nr.state = "Closed"
    THEN [err |-> "IOError", done |-> FALSE, v |-> NoVariant, seq |-> seq]
  ELSE LET fields == nr.options.desired_format_entries
           j == NextStop(seq, lines, fields, seq.cursor)
       IN IF ~seq.open \/ j = 0
            THEN [err |-> "none", done |-> TRUE, v |-> NoVariant,
                  seq |-> [seq EXCEPT !.cursor = Len(lines), !.open = FALSE]]
          ELSE LET r == parse_record(lines[j], fields)
               IN [err |-> r.err, done |-> FALSE, v |-> r.v,
                   seq |-> [seq EXCEPT !.cursor = j]]

\* The native reader's __exit__: releases the handles once; closing a closed
\* reader does nothing. fails: the release hits an I/O fault. A close-time
\* error is raised unless an exception is already in flight (exc), which it
\* must not mask. ret is the value the native __exit__ returns; exc_seen keeps
\* the exception information the close was told of.
Native_reader_exit(nr, exc, fails, ret) ==
  IF nr.state = "Closed"
    THEN [reader |-> nr, err |-> "none", ret |-> ret]
  ELSE [reader |-> [nr EXCEPT !.state = "Closed", !.handles = 0,
                              !.releases = nr.releases + 1,
                              !.exc_seen = exc],
        err |-> IF fails /\ exc = "none" THEN "IOError" ELSE "none",
        ret |-> ret]

\* ---------------------------------------------------------------- NativeVcfReader
\* A constructor that asks for the index whatever use_index says.
IndexMode_always(use_index) == "INDEX_BASED_ON_FILENAME"

\* A constructor with the test on use_index the wrong way round.
IndexMode_inverted(use_index) ==
  IF use_index THEN "DONT_USE_INDEX" ELSE "INDEX_BASED_ON_FILENAME"

\* index_mode chosen by __init__.
IndexMode(use_index) ==
  IF ~use_index THEN "DONT_USE_INDEX" ELSE "INDEX_BASED_ON_FILENAME"

\* A constructor that forgets to exclude the genotype likelihoods.
DesiredVcfFields_qualityOnly(include_likelihoods) ==
  IF ~include_likelihoods
    THEN [exclude_genotype_quality |-> TRUE, exclude_genotype_likelihood |-> FALSE]
  ELSE [exclude_genotype_quality |-> FALSE, exclude_genotype_likelihood |-> FALSE]

\* desired_vcf_fields built by __init__.
DesiredVcfFields(include_likelihoods) ==
  IF ~include_likelihoods
    THEN [exclude_genotype_quality |-> TRUE, exclude_genotype_likelihood |-> TRUE]
  ELSE [exclude_genotype_quality |-> FALSE, exclude_genotype_likelihood |-> FALSE]

VcfReaderOptions(use_index, include_likelihoods) ==
  [index_mode |-> IndexMode(use_index),
   desired_format_entries |-> DesiredVcfFields(include_likelihoods)]

NoReader == [exists |-> FALSE, reader_ |-> NoNativeReader, header |-> CorruptHeader]

\* A constructor that keeps the native reader in a module-level cache and
\* hands the cached one to every later instance.
NativeVcfReader__init__cached(hdr, indexed, use_index, include_likelihoods) ==
  LET r == from_file(hdr, indexed, VcfReaderOptions(use_index, include_likelihoods))
  IN IF r.err # "none"
       THEN [err |-> r.err, obj |-> NoReader]
     ELSE IF other.reader.exists
       THEN [err |-> "none",
             obj |-> [exists |-> TRUE, reader_ |-> other.reader.reader_,
                      header |-> other.reader.reader_.header]]
     ELSE [err |-> "none",
           obj |-> [exists |-> TRUE, reader_ |-> r.reader, header |-> r.reader.header]]

\* A constructor that catches the error of from_file and returns an instance
\* without a native reader.
NativeVcfReader__init__swallow(hdr, indexed, use_index, include_likelihoods) ==
  LET r == from_file(hdr, indexed, VcfReaderOptions(use_index, include_likelihoods))
  IN [err |-> "none",
      obj |-> [exists |-> TRUE, reader_ |-> r.reader, header |-> r.reader.header]]

\* A constructor that insists on the index when use_index asks for it.
NativeVcfReader__init__eager(hdr, indexed, use_index, include_likelihoods) ==
  LET r == from_file(hdr, indexed, VcfReaderOptions(use_index, include_likelihoods))
  IN IF r.err # "none"
       THEN [err |-> r.err, obj |-> NoReader]
     ELSE IF use_index /\ ~indexed
       THEN [err |-> "ConfigurationError", obj |-> NoReader]
     ELSE [err |-> "none",
           obj |-> [exists |-> TRUE, reader_ |-> r.reader, header |-> r.reader.header]]

\* NativeVcfReader.__init__: an error of from_file propagates and no instance
\* is made; otherwise the instance keeps the native reader and its header.
NativeVcfReader__init__(hdr, indexed, use_index, include_likelihoods) ==
  LET r == from_file(hdr, indexed, VcfReaderOptions(use_index, include_likelihoods))
  IN IF r.err # "none"
       THEN [err |-> r.err, obj |-> NoReader]
     ELSE [err |-> "none",
           obj |-> [exists |-> TRUE, reader_ |-> r.reader, header |-> r.reader.header]]

\* The keyword arguments of a call of the constructor: each one given as True
\* or False, or left out.
Keywords ==
  [use_index : {"omitted", "True", "False"},
   include_likelihoods : {"omitted", "True", "False"}]

KeywordOf(b) == IF b THEN "True" ELSE "False"

\* The value a parameter takes: the keyword's, or the default when left out.
Argument(keyword, default) == IF keyword = "omitted" THEN default ELSE keyword = "True"

\* The defaults of __init__(self, input_path, use_index=True, include_likelihoods=False).
Default_use_index == TRUE

Default_include_likelihoods == FALSE

\* NativeVcfReader(input_path, **keywords)
NativeVcfReader_call(hdr, indexed, keywords) ==
  NativeVcfReader__init__(hdr, indexed,
                          Argument(keywords.use_index, Default_use_index),
                          Argument(keywords.include_likelihoods, Default_include_likelihoods))

\* An iterate that passes over the lines with too few columns.
NativeVcfReader_iterate_skipping(obj, nlines) ==
  LET r == Native_iterate(obj.reader_, nlines)
  IN [r EXCEPT !.seq.cand = {i \in r.seq.cand : file[i].cols >= FixedColumns}]

\* NativeVcfReader.iterate
NativeVcfReader_iterate(obj, nlines) == Native_iterate(obj.reader_, nlines)

\* A query that passes the contig of the region and loses its bounds.
NativeVcfReader_query_unbounded(obj, region, cand) ==
  Native_query(obj.reader_, [region EXCEPT !.start = 0, !.end = MaxPos + MaxLen], cand)

\* A query that hands out the sequence of the previous query again.
NativeVcfReader_query_cached(obj, region, cand) ==
  IF seqObj.exists /\ seqObj.src = "query"
    THEN [err |-> "none", seq |-> seqObj]
  ELSE Native_query(obj.reader_, region, cand)

\* NativeVcfReader.query
NativeVcfReader_query(obj, region, cand) == Native_query(obj.reader_, region, cand)

\* An __exit__ that returns what the native __exit__ returned.
NativeVcfReader__exit__returning(obj, exc, fails, ret) ==
  LET r == Native_reader_exit(obj.reader_, exc, fails, ret)
  IN [obj |-> [obj EXCEPT !.reader_ = r.reader], err |-> r.err, ret |-> r.ret]

\* An __exit__ that does not tell the native reader of the exception in flight.
NativeVcfReader__exit__noinfo(obj, exc, fails, ret) ==
  LET r == Native_reader_exit(obj.reader_, "none", fails, ret)
  IN [obj |-> [obj EXCEPT !.reader_ = r.reader], err |-> r.err, ret |-> FALSE]

\* An __exit__ that does not reach the native reader.
NativeVcfReader__exit__skip(obj, exc, fails, ret) ==
  [obj |-> obj, err |-> "none", ret |-> FALSE]

\* NativeVcfReader.__exit__: hands the exception information to the native
\* reader and returns None (FALSE), whatever the native __exit__ returned.
NativeVcfReader__exit__(obj, exc, fails, ret) ==
  LET r == Native_reader_exit(obj.reader_, exc, fails, ret)
  IN [obj |-> [obj EXCEPT !.reader_ = r.reader], err |-> r.err, ret |-> FALSE]

\* ---------------------------------------------------------------- native writer
NoNativeWriter ==
  [state |-> "Closed", header |-> CorruptHeader, round_qual_values |-> FALSE,
   handles |-> 0, releases |-> 0, exc_seen |-> "none"]

\* vcf_writer.VcfWriter.to_file: opens the output and keeps the header it is given.
to_file(header, writer_options) ==
  [state |-> "Open", header |-> header,
   round_qual_values |-> writer_options.round_qual_values,
   handles |-> 1, releases |-> 0, exc_seen |-> "none"]

\* The variants a caller may write. calls is the number of genotype calls; gq
\* and gl tell whether the calls carry a genotype quality and likelihoods.
Protos ==
  {p \in [contig : {"chr1"}, pos : 1..MaxPos, len : {1}, qual : Quals, info : Infos,
          calls : 0..MaxSamples, gq : {"none", "value"}, gl : {"none", "value"}] :
     p.calls = 0 => (p.gq = "none" /\ p.gl = "none")}

\* The number of columns of the lines under a header: the fixed columns, and
\* with samples a FORMAT column and one column per sample.
Columns(header) ==
  FixedColumns + (IF header.samples = 0 THEN 0 ELSE 1 + header.samples)

\* The column-header line that ends the header block of a file.
format_header(header) == [cols |-> Columns(header)]

\* The header a header block parses to.
parse_header(text) ==
  IF text.cols < FixedColumns THEN CorruptHeader
  ELSE [samples |-> SampleColumns(text.cols)]

\* No header block: the output file does not exist yet.
NoHeaderText == [cols |-> 0]

\* The header block to_file writes at the head of the output.
header_block(nw) == format_header(nw.header)

\* Quality rounding to one decimal place, half up.
RoundQual(q) == IF q = Missing THEN Missing ELSE ((q + 5) \div 10) * 10

\* format_record: the line of a variant under a header. A missing number is
\* written as "."; FORMAT lists only the keys the calls carry.
format_record(proto, header, round_qual_values) ==
  [cols |-> Columns(header),
   contig |-> proto.contig, pos |-> proto.pos, len |-> proto.len,
   qual |-> NumberText(IF round_qual_values THEN RoundQual(proto.qual) ELSE proto.qual),
   info |-> NumberText(proto.info),
   gq |-> IF proto.gq = "value" THEN "good" ELSE "absent",
   gl |-> IF proto.gl = "value" THEN "good" ELSE "absent"]

\* The native writer's write: a variant whose number of calls is not the
\* header's number of samples is a SerializationError and emits nothing.
Native_write(nw, proto) ==
  IF nw.state = "Closed"
    THEN [err |-> "IOError", emit |-> <<>>]
  ELSE IF proto.calls # nw.header.samples
    THEN [err |-> "SerializationError", emit |-> <<>>]
  ELSE [err |-> "none", emit |-> <<format_record(proto, nw.header, nw.round_qual_values)>>]

\* The native writer's __exit__, as the native reader's.
Native_writer_exit(nw, exc, fails, ret) ==
  IF nw.state = "Closed"
    THEN [writer |-> nw, err |-> "none", ret |-> ret]
  ELSE [writer |-> [nw EXCEPT !.state = "Closed", !.handles = 0,
                              !.releases = nw.releases + 1,
                              !.exc_seen = exc],
        err |-> IF fails /\ exc = "none" THEN "IOError" ELSE "none",
        ret |-> ret]

\* ---------------------------------------------------------------- NativeVcfWriter
\* header=None of NativeVcfWriter.__init__.
HeaderNone == [samples |-> -2]

NoWriter == [exists |-> FALSE, writer_ |-> NoNativeWriter]

\* A constructor that does not pass the caller's header on.
NativeVcfWriter__init__noheader(header, round_qualities) ==
  LET writer_options == [round_qual_values |-> round_qualities]
  IN [exists |-> TRUE, writer_ |-> to_file(DefaultHeader, writer_options)]

\* A constructor that always asks for rounded qualities.
NativeVcfWriter__init__rounding(header, round_qualities) ==
  LET h == IF header = HeaderNone THEN DefaultHeader ELSE header
      writer_options == [round_qual_values |-> TRUE]
  IN [exists |-> TRUE, writer_ |-> to_file(h, writer_options)]

\* NativeVcfWriter.__init__
NativeVcfWriter__init__(header, round_qualities) ==
  LET h == IF header = HeaderNone THEN DefaultHeader ELSE header
      writer_options == [round_qual_values |-> round_qualities]
  IN [exists |-> TRUE, writer_ |-> to_file(h, writer_options)]

\* A write that takes the samples of the header from the variant written.
NativeVcfWriter_write_rederive(obj, proto) ==
  LET o == [obj EXCEPT !.writer_.header = [samples |-> proto.calls]]
      r == Native_write(o.writer_, proto)
  IN [obj |-> o, err |-> r.err, emit |-> r.emit]

\* NativeVcfWriter.write
NativeVcfWriter_write(obj, proto) ==
  LET r == Native_write(obj.writer_, proto)
  IN [obj |-> obj, err |-> r.err, emit |-> r.emit]

\* NativeVcfWriter.__exit__
NativeVcfWriter__exit__(obj, exc, fails, ret) ==
  LET r == Native_writer_exit(obj.writer_, exc, fails, ret)
  IN [obj |-> [obj EXCEPT !.writer_ = r.writer], err |-> r.err, ret |-> FALSE]

\* ---------------------------------------------------------------- VcfReader, VcfWriter
\* An extension list that takes .gz for an extension of the native format.
VCF_EXTENSIONS_gz == {".vcf", ".gz"}

\* _VCF_EXTENSIONS
VCF_EXTENSIONS == {".vcf"}

\* VcfReader._get_extensions
VcfReader_get_extensions == VCF_EXTENSIONS

\* VcfWriter._get_extensions
VcfWriter_get_extensions == VCF_EXTENSIONS

\* VcfReader._native_reader
VcfReader_native_reader(hdr, indexed, use_index, include_likelihoods) ==
  NativeVcfReader__init__(hdr, indexed, use_index, include_likelihoods)

\* VcfWriter._native_writer
VcfWriter_native_writer(header, round_qualities) ==
  NativeVcfWriter__init__(header, round_qualities)

\* The extensions a path may carry after its stem, and the paths: a path is
\* the sequence of its extensions, so <<".vcf", ".gz">> is x.vcf.gz.
Extensions == {".vcf", ".gz", ".tfrecord", ".txt"}

\* The dispatching constructor's choice: the native implementation when one of
\* the extensions of the path is an extension of the native format, the
\* record-container implementation otherwise.
Dispatch_select(path, extensions) ==
  IF \E i \in 1..Len(path) : path[i] \in extensions THEN "native" ELSE "container"

\* Whether the file is treated as compressed: the path ends in .gz.
Compressed(path) == Len(path) > 0 /\ path[Len(path)] = ".gz"

\* No VcfReader or VcfWriter has been made.
NoDispatch == [exists |-> FALSE, path |-> <<>>, impl |-> "none", compressed |-> FALSE]

\* The dispatcher made for a path with the extensions of its native format.
Dispatcher(path, extensions) ==
  [exists |-> TRUE, path |-> path, impl |-> Dispatch_select(path, extensions),
   compressed |-> Compressed(path)]

\* ---------------------------------------------------------------- input files
\* Lines whose optional values are all missing, at any place.
PlainLines ==
  {l \in WellFormedLines :
     l.qual = "." /\ l.info = "." /\ l.gq = "absent" /\ l.gl = "absent"}

\* Lines at one place, with any FORMAT fields.
FormatLines ==
  {l \in WellFormedLines :
     l.contig = "chr1" /\ l.pos = 1 /\ l.len = 1 /\ l.qual = "." /\ l.info = "."}

\* One plain line.
PlainLine == CHOOSE l \in PlainLines \cap FormatLines : TRUE

RECURSIVE SeqsUpTo(_, _)
SeqsUpTo(S, n) ==
  IF n = 0 THEN {<<>>}
  ELSE LET shorter == SeqsUpTo(S, n - 1)
       IN shorter \cup {Append(s, x) : s \in {t \in shorter : Len(t) = n - 1}, x \in S}

\* An indexed file is sorted by contig and position (the index cannot be built
\* otherwise).
Sorted(lines) ==
  \A i, j \in 1..Len(lines) :
    (i < j /\ lines[i].cols >= FixedColumns /\ lines[j].cols >= FixedColumns) =>
      \/ ContigRank(lines[i].contig) < ContigRank(lines[j].contig)
      \/ /\ lines[i].contig = lines[j].contig
         /\ lines[i].pos <= lines[j].pos

\* The input files of each specification.
LifeFiles == SeqsUpTo({PlainLine, MalformedLine}, MaxRecords)
ParseFiles == SeqsUpTo(FormatLines \cup {MalformedLine}, MaxRecords)
QueryFiles == {f \in SeqsUpTo(PlainLines, MaxQueryRecords) : Sorted(f)}

NoArgs ==
  [use_index |-> FALSE, include_likelihoods |-> FALSE, header |-> HeaderNone,
   round_qualities |-> FALSE, region |-> NoRegion, variants |-> <<>>,
   keywords |-> [use_index |-> "omitted", include_likelihoods |-> "omitted"]]

\* A reader instance with its caller: the instance, the caller's place, the
\* sequence the caller holds and what it has pulled from it.
NoContext ==
  [pc |-> "start", reader |-> NoReader, seqObj |-> NoSeq, outcomes |-> <<>>,
   raised |-> "none", args |-> NoArgs]

\* The state before the with statement, the input file being one of F.
InitWith(F, K) ==
  /\ kind \in K
  /\ IF kind = "reader"
       THEN /\ file \in F
            /\ fileHeader \in Headers \cup {CorruptHeader}
            /\ hasIndex \in BOOLEAN
            /\ hasIndex => Sorted(file)
       ELSE /\ file = <<>>
            /\ fileHeader = DefaultHeader
            /\ hasIndex = FALSE
  /\ pc = "start"
  /\ reader = NoReader
  /\ writer = NoWriter
  /\ seqObj = NoSeq
  /\ outcomes = <<>>
  /\ out = <<>>
  /\ raised = "none"
  /\ observed = "none"
  /\ scopeErr = "none"
  /\ closeFault = FALSE
  /\ reclosed = FALSE
  /\ args = NoArgs
  /\ outHeader = NoHeaderText
  /\ other = NoContext
  /\ dispatch = NoDispatch

Init == InitWith(LifeFiles, {"reader", "writer"})

\* ---------------------------------------------------------------- operations
\* with NativeVcfReader(input_path, use_index, include_likelihoods) as reader:
\* an error of the constructor leaves the with statement at once.
OpenReader ==
  /\ kind = "reader" /\ pc = "start"
  /\ \E use_index \in BOOLEAN, include_likelihoods \in BOOLEAN :
       LET r == NativeVcfReader__init__(fileHeader, hasIndex, use_index, include_likelihoods)
       IN /\ reader' = r.obj
          /\ raised' = r.err
          /\ pc' = IF r.err = "none" THEN "body" ELSE "exited"
          /\ observed' = r.err
          /\ args' = [args EXCEPT !.use_index = use_index,
                                  !.include_likelihoods = include_likelihoods,
                                  !.keywords = [use_index |-> KeywordOf(use_index),
                                                include_likelihoods |->
                                                  KeywordOf(include_likelihoods)]]
  /\ UNCHANGED <<kind, file, fileHeader, hasIndex, outHeader, other, dispatch, writer, seqObj, outcomes, out,
                 scopeErr, closeFault, reclosed>>

\* with NativeVcfReader(input_path, **keywords) as reader: either keyword may
\* be left out.
OpenReaderKeywords ==
  /\ kind = "reader" /\ pc = "start"
  /\ \E keywords \in Keywords :
       LET r == NativeVcfReader_call(fileHeader, hasIndex, keywords)
       IN /\ reader' = r.obj
          /\ raised' = r.err
          /\ pc' = IF r.err = "none" THEN "body" ELSE "exited"
          /\ observed' = r.err
          /\ args' = [args EXCEPT
                        !.use_index = Argument(keywords.use_index, Default_use_index),
                        !.include_likelihoods =
                          Argument(keywords.include_likelihoods, Default_include_likelihoods),
                        !.keywords = keywords]
  /\ UNCHANGED <<kind, file, fileHeader, hasIndex, outHeader, other, dispatch, writer,
                 seqObj, outcomes, out, scopeErr, closeFault, reclosed>>

\* with NativeVcfWriter(output_path, header, round_qualities) as writer:
OpenWriter ==
  /\ kind = "writer" /\ pc = "start"
  /\ \E header \in Headers \cup {HeaderNone}, round_qualities \in BOOLEAN :
       /\ writer' = NativeVcfWriter__init__(header, round_qualities)
       /\ args' = [args EXCEPT !.header = header, !.round_qualities = round_qualities]
       /\ outHeader' = header_block(writer'.writer_)
  /\ pc' = "body"
  /\ raised' = "none"
  /\ UNCHANGED <<kind, file, fileHeader, hasIndex, other, dispatch, reader, seqObj,
                 outcomes, out, observed, scopeErr, closeFault, reclosed>>

\* reader.iterate()
Iterate ==
  /\ reader.exists
  /\ LET r == NativeVcfReader_iterate(reader, Len(file))
     IN /\ raised' = r.err
        /\ seqObj' = IF r.err = "none" THEN r.seq ELSE seqObj
        /\ outcomes' = IF r.err = "none" THEN <<>> ELSE outcomes
  /\ UNCHANGED <<kind, file, fileHeader, hasIndex, outHeader, other, dispatch, pc, reader, writer, out,
                 observed, scopeErr, closeFault, reclosed, args>>

\* The lines of the file that overlap the region: what an exact index answers.
Hits(lines, region) ==
  {i \in 1..Len(lines) : lines[i].cols >= FixedColumns /\ Overlaps(lines[i], region)}

\* reader.query(region), region one of R; the index answers with the hits and
\* the false positives extra, one of E.
Query(R, E) ==
  /\ reader.exists
  /\ \E region \in R, extra \in E :
       LET r == NativeVcfReader_query(reader, region, Hits(file, region) \cup extra)
       IN /\ raised' = r.err
          /\ seqObj' = IF r.err = "none" THEN r.seq ELSE seqObj
          /\ outcomes' = IF r.err = "none" THEN <<>> ELSE outcomes
          /\ args' = IF r.err = "none" THEN [args EXCEPT !.region = region] ELSE args
  /\ UNCHANGED <<kind, file, fileHeader, hasIndex, outHeader, other, dispatch, pc, reader, writer, out,
                 observed, scopeErr, closeFault, reclosed>>

\* next() on the sequence: one pull.
Pull ==
  /\ reader.exists /\ seqObj.exists
  /\ LET r == Native_next(reader.reader_, seqObj, file)
     IN /\ raised' = r.err
        /\ seqObj' = r.seq
        /\ outcomes' = IF r.done \/ (r.err # "none" /\ r.seq = seqObj)
                         THEN outcomes
                       ELSE Append(outcomes, [err |-> r.err, v |-> r.v, line |-> r.seq.cursor])
  /\ UNCHANGED <<kind, file, fileHeader, hasIndex, outHeader, other, dispatch, pc, reader, writer, out,
                 observed, scopeErr, closeFault, reclosed, args>>

\* The caller drops the sequence without exhausting it.
Abandon ==
  /\ seqObj.exists
  /\ seqObj' = NoSeq
  /\ outcomes' = <<>>
  /\ raised' = "none"
  /\ UNCHANGED <<kind, file, fileHeader, hasIndex, outHeader, other, dispatch, pc, reader, writer, out,
                 observed, scopeErr, closeFault, reclosed, args>>

\* writer.write(proto), proto one of P.
Write(P) ==
  /\ writer.exists
  /\ Len(out) < MaxWrites
  /\ \E proto \in P :
       LET r == NativeVcfWriter_write(writer, proto)
       IN /\ writer' = r.obj
          /\ raised' = r.err
          /\ out' = out \o r.emit
          /\ args' = IF r.err = "none"
                       THEN [args EXCEPT !.variants = Append(@, proto)]
                     ELSE args
  /\ UNCHANGED <<kind, file, fileHeader, hasIndex, outHeader, other, dispatch, pc,
                 reader, seqObj, outcomes, observed, scopeErr, closeFault, reclosed>>

\* The variants written in the lifecycle specification: every optional value missing.
LifeProtos ==
  {p \in Protos : p.qual = Missing /\ p.info = Missing /\ p.gq = "none" /\ p.gl = "none"}

LifeWrite == Write(LifeProtos)

\* The result of __exit__ on the instance the scope holds.
ExitCall(exc, fails, ret) ==
  IF kind = "reader"
    THEN LET r == NativeVcfReader__exit__(reader, exc, fails, ret)
         IN [reader |-> r.obj, writer |-> writer, err |-> r.err, ret |-> r.ret]
  ELSE LET r == NativeVcfWriter__exit__(writer, exc, fails, ret)
       IN [reader |-> reader, writer |-> r.obj, err |-> r.err, ret |-> r.ret]

InstanceOpen ==
  IF kind = "reader" THEN reader.reader_.state # "Closed"
  ELSE writer.writer_.state # "Closed"

\* What the caller of a with statement sees: the error __exit__ raised, else
\* the error in flight unless __exit__ returned a true value.
WithResult(exc, exitErr, exitRet) ==
  IF exitErr # "none" THEN exitErr
  ELSE IF exitRet THEN "none"
  ELSE exc

\* The with block ends, normally or by the error in flight, and __exit__ runs.
ExitScope ==
  /\ pc = "body"
  /\ \E exc \in {raised, "none"}, fails \in BOOLEAN, ret \in BOOLEAN :
       LET r == ExitCall(exc, fails, ret)
       IN /\ reader' = r.reader
          /\ writer' = r.writer
          /\ observed' = WithResult(exc, r.err, r.ret)
          /\ scopeErr' = exc
          /\ closeFault' = (fails /\ InstanceOpen)
          /\ reclosed' = (reclosed \/ ~InstanceOpen)
  /\ pc' = "exited"
  /\ raised' = "none"
  /\ UNCHANGED <<kind, file, fileHeader, hasIndex, outHeader, other, dispatch, seqObj, outcomes, out, args>>

\* An explicit close: instance.__exit__(None, None, None), inside or after the scope.
Close ==
  /\ pc \in {"body", "exited"}
  /\ reader.exists \/ writer.exists
  /\ \E fails \in BOOLEAN, ret \in BOOLEAN :
       LET r == ExitCall("none", fails, ret)
       IN /\ reader' = r.reader
          /\ writer' = r.writer
          /\ raised' = r.err
          /\ reclosed' = (reclosed \/ ~InstanceOpen)
  /\ UNCHANGED <<kind, file, fileHeader, hasIndex, outHeader, other, dispatch, pc, seqObj, outcomes, out,
                 observed, scopeErr, closeFault, args>>

\* The regions queried in the lifecycle specification: one base wide, on chr1.
LifeRegions == {r \in Regions : r.contig = "chr1" /\ r.end = r.start + 1}

\* A query of the lifecycle specification: the index is exact, or answers with
\* every line.
LifeQuery == Query(LifeRegions, {{}, 1..Len(file)})

Next ==
  \/ OpenReader
  \/ OpenWriter
  \/ Iterate
  \/ LifeQuery
  \/ Pull
  \/ Abandon
  \/ LifeWrite
  \/ ExitScope
  \/ Close

\* The lifecycle of one reader or writer scope.
Spec == Init /\ [][Next]_vars

\* Iteration over files with FORMAT fields that may not decode.
InitParse == InitWith(ParseFiles, {"reader"}) /\ ~hasIndex /\ fileHeader = DefaultHeader

NextParse ==
  \/ OpenReader
  \/ Iterate
  \/ Pull

SpecParse == InitParse /\ [][NextParse]_vars

\* Region queries over sorted, indexed files.
InitQuery == InitWith(QueryFiles, {"reader"}) /\ hasIndex /\ fileHeader = DefaultHeader

\* The first query on a reader; the index answers with any superset of the hits.
FirstQuery == ~seqObj.exists /\ Query(Regions, SUBSET (1..Len(file)))

NextQuery ==
  \/ OpenReader
  \/ FirstQuery
  \/ Pull

SpecQuery == InitQuery /\ [][NextQuery]_vars

\* The variants written in the round-trip specification, all at one place:
\* the quality is missing, 0.00 or 0.05, the INFO value is 0 or (with a
\* quality) missing, and the calls carry a genotype quality and likelihoods, or
\* neither.
RoundTripProtos ==
  {p \in Protos : p.pos = 1 /\ p.gq = p.gl /\ (p.info = Missing <=> p.qual # Missing)}

RoundTripWrite == Write(RoundTripProtos)

\* The output file, complete after a writer scope that ended without error, is
\* opened for reading: its header block and lines are the input of a reader.
ReadBack ==
  /\ kind = "writer" /\ pc = "exited" /\ observed = "none"
  /\ writer.exists /\ writer.writer_.state = "Closed"
  /\ kind' = "reader"
  /\ file' = out
  /\ fileHeader' = parse_header(outHeader)
  /\ hasIndex' = FALSE
  /\ pc' = "start"
  /\ raised' = "none"
  /\ scopeErr' = "none"
  /\ closeFault' = FALSE
  /\ reclosed' = FALSE
  /\ UNCHANGED <<reader, writer, seqObj, outcomes, out, observed, args, outHeader,
                 other, dispatch>>

InitRoundTrip == InitWith({<<>>}, {"writer"})

NextRoundTrip ==
  \/ OpenWriter
  \/ RoundTripWrite
  \/ ExitScope
  \/ ReadBack
  \/ OpenReader
  \/ Iterate
  \/ Pull

\* A writer scope, and then a reader scope on the file the writer made.
SpecRoundTrip == InitRoundTrip /\ [][NextRoundTrip]_vars

\* The paths given to VcfReader and VcfWriter.
Paths == SeqsUpTo(Extensions, MaxExtensions)

\* with VcfReader(input_path, use_index, include_likelihoods) as reader: the
\* native reader is made only when the native implementation is chosen.
OpenVcfReader ==
  /\ kind = "reader" /\ pc = "start" /\ ~dispatch.exists
  /\ \E path \in Paths, use_index \in BOOLEAN, include_likelihoods \in BOOLEAN :
       LET d == Dispatcher(path, VcfReader_get_extensions)
           r == IF d.impl = "native"
                  THEN VcfReader_native_reader(fileHeader, hasIndex, use_index,
                                               include_likelihoods)
                ELSE [err |-> "none", obj |-> NoReader]
       IN /\ dispatch' = IF r.err = "none" THEN d ELSE dispatch
          /\ reader' = r.obj
          /\ raised' = r.err
          /\ pc' = IF r.err = "none" THEN "body" ELSE "exited"
          /\ observed' = r.err
          /\ args' = [args EXCEPT !.use_index = use_index,
                                  !.include_likelihoods = include_likelihoods,
                                  !.keywords = [use_index |-> KeywordOf(use_index),
                                                include_likelihoods |->
                                                  KeywordOf(include_likelihoods)]]
  /\ UNCHANGED <<kind, file, fileHeader, hasIndex, outHeader, other, writer, seqObj,
                 outcomes, out, scopeErr, closeFault, reclosed>>

\* with VcfWriter(output_path, header, round_qualities) as writer:
OpenVcfWriter ==
  /\ kind = "writer" /\ pc = "start" /\ ~dispatch.exists
  /\ \E path \in Paths, header \in Headers \cup {HeaderNone}, round_qualities \in BOOLEAN :
       LET d == Dispatcher(path, VcfWriter_get_extensions)
       IN /\ dispatch' = d
          /\ writer' = IF d.impl = "native"
                         THEN VcfWriter_native_writer(header, round_qualities)
                       ELSE NoWriter
          /\ outHeader' = IF d.impl = "native"
                            THEN header_block(writer'.writer_)
                          ELSE outHeader
          /\ args' = [args EXCEPT !.header = header, !.round_qualities = round_qualities]
  /\ pc' = "body"
  /\ raised' = "none"
  /\ UNCHANGED <<kind, file, fileHeader, hasIndex, other, reader, seqObj, outcomes,
                 out, observed, scopeErr, closeFault, reclosed>>

\* The input files of the dispatch specification: empty, or of one line.
DispatchFiles == SeqsUpTo({PlainLine}, 1)

\* The variant written in the dispatch specification.
DispatchProtos == {p \in LifeProtos : p.pos = 1 /\ p.calls = 0}

DispatchWrite == Write(DispatchProtos)

InitDispatch ==
  /\ InitWith(DispatchFiles, {"reader", "writer"})
  /\ ~hasIndex
  /\ fileHeader \in {DefaultHeader, CorruptHeader}

NextDispatch ==
  \/ OpenVcfReader
  \/ OpenVcfWriter
  \/ Iterate
  \/ Pull
  \/ DispatchWrite
  \/ ExitScope

\* A scope of a VcfReader or VcfWriter made for a path.
SpecDispatch == InitDispatch /\ [][NextDispatch]_vars

\* The instance that is running, with its caller.
Running ==
  [pc |-> pc, reader |-> reader, seqObj |-> seqObj, outcomes |-> outcomes,
   raised |-> raised, args |-> args]

\* Two instances hold the same native reader.
SameNative(a, b) ==
  a.reader.exists /\ b.reader.exists /\ a.reader.reader_.id = b.reader.reader_.id

\* The other execution context takes over: the instance that was waiting runs
\* and the running one waits. A native reader held by both instances is one
\* object: the instance that resumes finds it as the other one left it.
Switch ==
  /\ kind = "reader"
  /\ reader' = IF SameNative(Running, other)
                 THEN [other.reader EXCEPT !.reader_ = reader.reader_]
               ELSE other.reader
  /\ pc' = other.pc
  /\ seqObj' = other.seqObj
  /\ outcomes' = other.outcomes
  /\ raised' = other.raised
  /\ args' = other.args
  /\ other' = Running
  /\ UNCHANGED <<kind, file, fileHeader, hasIndex, outHeader, dispatch, writer, out,
                 observed, scopeErr, closeFault, reclosed>>

\* The input files of the two-reader specification: one or two plain lines.
TwoFiles == {<<PlainLine>>, <<PlainLine, PlainLine>>}

InitTwo == InitWith(TwoFiles, {"reader"}) /\ fileHeader = DefaultHeader

NextTwo ==
  \/ OpenReader
  \/ Iterate
  \/ LifeQuery
  \/ Pull
  \/ Close
  \/ Switch

\* Two reader instances on one file, run by two execution contexts in turn.
SpecTwo == InitTwo /\ [][NextTwo]_vars

InitOptions == InitWith(TwoFiles, {"reader"})

NextOptions ==
  \/ OpenReaderKeywords
  \/ Iterate
  \/ LifeQuery
  \/ Pull

\* A reader made with any of its keyword arguments left out.
SpecOptions == InitOptions /\ [][NextOptions]_vars

\* ---------------------------------------------------------------- claims
\* The state of the region-query state machine the reader is in.
ReaderState == reader.reader_.state

\* C1: query(region) returns a sequence only on an Open-Indexed reader opened
\* with use_index=true; on a Closed reader or one opened with use_index=false
\* it raises and hands out no sequence; and a reader becomes Closed only by a
\* step of __exit__ (scope exit or explicit close).
C1_QueryOnlyOpenIndexed ==
  [][/\ LifeQuery =>
          /\ (raised' = "none") <=> (ReaderState = "OpenIndexed")
          /\ (raised' = "none") => args.use_index
          /\ (ReaderState = "Closed" \/ ~args.use_index) =>
               (raised' # "none" /\ seqObj' = seqObj /\ outcomes' = outcomes)
     /\ (reader.exists /\ ReaderState # "Closed" /\ reader'.reader_.state = "Closed") =>
          (ExitScope \/ Close)
    ]_vars

\* C1 witness: a query was rejected on a reader opened with use_index=false
\* although the file has an index.
C1_Witness ==
  /\ reader.exists /\ ~args.use_index /\ hasIndex
  /\ ReaderState = "OpenUnindexed"
  /\ raised = "ConfigurationError"

\* C2: __exit__ can run in every state of a scope and of an instance; after
\* the scope has exited, normally or by an error, the instance is Closed; and
\* __exit__ on a Closed instance changes nothing, releases nothing again and
\* raises nothing.
C2_CloseIdempotent ==
  /\ [](/\ (pc = "body" => ENABLED ExitScope)
        /\ ((reader.exists \/ writer.exists) => ENABLED Close)
        /\ ((pc = "exited" /\ (reader.exists \/ writer.exists)) => ~InstanceOpen)
        /\ reader.reader_.releases <= 1
        /\ writer.writer_.releases <= 1)
  /\ [][((ExitScope \/ Close) /\ ~InstanceOpen) =>
          /\ reader' = reader
          /\ writer' = writer
          /\ raised' = "none"
          /\ (pc = "body" => observed' = scopeErr')
       ]_vars

\* C2 witness: a scope left by an error, its reader closed at the exit and
\* then closed a second time, with one release in all.
C2_Witness ==
  /\ pc = "exited" /\ scopeErr # "none" /\ reclosed
  /\ reader.exists /\ ReaderState = "Closed"
  /\ reader.reader_.releases = 1 /\ reader.reader_.handles = 0
  /\ raised = "none"

\* The reader was asked for an index that the file does not have.
IndexMissing ==
  /\ kind = "reader" /\ fileHeader # CorruptHeader
  /\ ~hasIndex

\* C3: opening with use_index=true a file that has no index raises nothing and
\* gives a reader; iterate() on it returns a sequence; the missing index shows
\* only as the ConfigurationError of query(region).
C3_MissingIndexLazy ==
  [][IndexMissing =>
       /\ (OpenReader /\ args'.use_index) =>
            (reader'.exists /\ raised' = "none" /\ observed' = "none" /\ pc' = "body")
       /\ (args.use_index /\ reader.exists /\ ReaderState # "Closed") =>
            /\ Iterate => (raised' = "none" /\ seqObj'.exists /\ seqObj'.src = "iterate"
                           /\ seqObj'.cursor = 0)
            /\ LifeQuery => (raised' = "ConfigurationError" /\ seqObj' = seqObj)
    ]_vars

\* C3 witness: a reader opened with use_index=true on a file without index,
\* still open, whose query raised ConfigurationError.
C3_Witness ==
  /\ IndexMissing /\ args.use_index
  /\ reader.exists /\ ReaderState = "OpenUnindexed" /\ pc = "body"
  /\ raised = "ConfigurationError"

\* C4: a pull, also the one that exhausts a sequence, and the dropping of a
\* sequence leave the reader as it is; an exhausted sequence holds no per-query
\* resources; and a query (or iterate) on the reader, whatever sequences were
\* exhausted or dropped before, returns a new sequence at the start of its region.
C4_SequencesNeverClose ==
  [][/\ (Pull \/ Abandon) => reader' = reader
     /\ (Pull /\ raised' = "none" /\ outcomes' = outcomes) => ~seqObj'.open
     /\ Abandon => ~seqObj'.exists
     /\ (LifeQuery /\ ReaderState = "OpenIndexed") =>
          /\ raised' = "none"
          /\ seqObj'.exists /\ seqObj'.src = "query" /\ seqObj'.open
          /\ seqObj'.cursor = 0 /\ seqObj'.region = args'.region
          /\ outcomes' = <<>>
     /\ (Iterate /\ ReaderState # "Closed") =>
          /\ raised' = "none"
          /\ seqObj'.exists /\ seqObj'.src = "iterate" /\ seqObj'.open
          /\ seqObj'.cursor = 0
          /\ outcomes' = <<>>
    ]_vars

\* C4 witness: a query sequence that has yielded and is exhausted, on a reader
\* that is still Open-Indexed.
C4_Witness ==
  /\ reader.exists /\ ReaderState = "OpenIndexed"
  /\ seqObj.exists /\ seqObj.src = "query" /\ ~seqObj.open
  /\ Len(outcomes) > 0

\* C5: with include_likelihoods=false every well-formed line is parsed without
\* error, whatever the text of its genotype-quality and genotype-likelihood
\* fields, and the variant yielded carries no value for either field.
C5_ExcludedFieldsSkipped ==
  (reader.exists /\ ~args.include_likelihoods) =>
    \A k \in 1..Len(outcomes) :
      file[outcomes[k].line].cols >= FixedColumns =>
        /\ outcomes[k].err = "none"
        /\ outcomes[k].v.gq = "none"
        /\ outcomes[k].v.gl = "none"

\* C5 witness: a line whose likelihood and quality fields do not decode was
\* yielded as a variant by a reader opened with include_likelihoods=false.
C5_Witness ==
  /\ reader.exists /\ ~args.include_likelihoods
  /\ \E k \in 1..Len(outcomes) :
       /\ file[outcomes[k].line].gl = "bad"
       /\ file[outcomes[k].line].gq = "bad"
       /\ outcomes[k].err = "none"

\* C6: when the header of the input does not parse, the constructor raises
\* ParseError out of the with statement: the body is never entered, there is no
\* instance to read header from or to call iterate, query or next on, and no
\* handle is held.
C6_NoPartialOpen ==
  (kind = "reader" /\ fileHeader = CorruptHeader /\ pc # "start") =>
    /\ pc = "exited"
    /\ observed = "ParseError"
    /\ ~reader.exists
    /\ reader.reader_.handles = 0
    /\ ~ENABLED Iterate
    /\ ~ENABLED LifeQuery
    /\ ~ENABLED Pull

\* C6 witness: the open of a file with a corrupt header has failed.
C6_Witness ==
  /\ kind = "reader" /\ fileHeader = CorruptHeader
  /\ pc = "exited" /\ observed = "ParseError" /\ raised = "ParseError"

\* C7: under iterate() the k-th pull deals with the k-th line of the file: a
\* line with too few columns gives ParseError at that pull, a variant yielded
\* is that line's, an exhausted sequence has dealt with every line, and the
\* error of a pull is raised to the caller by that same pull.
C7_MalformedNeverSkipped ==
  /\ []((seqObj.exists /\ seqObj.src = "iterate") =>
          /\ \A k \in 1..Len(outcomes) :
               /\ outcomes[k].line = k
               /\ file[k].cols < FixedColumns => outcomes[k].err = "ParseError"
               /\ outcomes[k].err = "none" =>
                    /\ file[k].cols >= FixedColumns
                    /\ outcomes[k].v.contig = file[k].contig
                    /\ outcomes[k].v.pos = file[k].pos
                    /\ outcomes[k].v.len = file[k].len
          /\ ~seqObj.open => Len(outcomes) = Len(file))
  /\ [][(Pull /\ Len(outcomes') = Len(outcomes) + 1) =>
          raised' = outcomes'[Len(outcomes')].err]_vars

\* C7 witness: the first line was yielded, the pull for the malformed second
\* line raised ParseError, and a well-formed third line follows it.
C7_Witness ==
  /\ seqObj.exists /\ seqObj.src = "iterate"
  /\ Len(file) = 3 /\ file[2] = MalformedLine /\ file[3].cols >= FixedColumns
  /\ Len(outcomes) = 2
  /\ outcomes[1].err = "none" /\ outcomes[2].err = "ParseError"
  /\ raised = "ParseError"

\* C8: when the scope is left by an error and the close at that exit hits an
\* I/O fault, the caller of the with statement sees the error that was in
\* flight, not the close-time error.
C8_FirstErrorWins ==
  (pc = "exited" /\ scopeErr # "none" /\ closeFault) => observed = scopeErr

\* C8 witness: a ParseError of a pull left the scope, the close of the reader
\* failed, and the caller saw the ParseError.
C8_Witness ==
  /\ kind = "reader" /\ pc = "exited"
  /\ scopeErr = "ParseError" /\ closeFault
  /\ observed = "ParseError"
  /\ ReaderState = "Closed"

\* The header the caller gave the writer, or the default header for None.
GivenHeader == IF args.header = HeaderNone THEN DefaultHeader ELSE args.header

\* C9: the header of a reader is the header of its file from the open on, the
\* header of a writer is the caller's (the default header for None) from the
\* construction on, and no operation changes either.
C9_HeaderFixed ==
  /\ [](/\ reader.exists => (reader.header = fileHeader /\ reader.reader_.header = fileHeader)
        /\ writer.exists => writer.writer_.header = GivenHeader)
  /\ [][/\ reader.exists => reader'.header = reader.header
        /\ writer.exists => writer'.writer_.header = writer.writer_.header]_vars

\* C9 witness: a writer made with header=None has written a line and has then
\* refused a variant with a genotype call.
C9_Witness ==
  /\ writer.exists /\ args.header = HeaderNone
  /\ writer.writer_.header = DefaultHeader
  /\ Len(out) > 0
  /\ raised = "SerializationError"

\* The numbers of the lines from line i on that overlap the region, in file order.
RECURSIVE OverlappingFrom(_, _, _)
OverlappingFrom(lines, region, i) ==
  IF i > Len(lines) THEN <<>>
  ELSE IF lines[i].cols >= FixedColumns /\ Overlaps(lines[i], region)
    THEN <<i>> \o OverlappingFrom(lines, region, i + 1)
  ELSE OverlappingFrom(lines, region, i + 1)

\* C10: whatever superset of the hits the index answers with, the pulls from
\* query(region) yield the variants of the lines that overlap the region, each
\* once, in file order and none else; exhausted, the sequence has yielded all
\* of them; and within a contig the positions yielded ascend.
C10_QueryExact ==
  (seqObj.exists /\ seqObj.src = "query") =>
    LET want == OverlappingFrom(file, args.region, 1)
    IN /\ Len(outcomes) <= Len(want)
       /\ \A k \in 1..Len(outcomes) :
            /\ outcomes[k].err = "none"
            /\ outcomes[k].line = want[k]
            /\ outcomes[k].v.contig = file[want[k]].contig
            /\ outcomes[k].v.pos = file[want[k]].pos
            /\ outcomes[k].v.len = file[want[k]].len
            /\ Overlaps(outcomes[k].v, args.region)
       /\ ~seqObj.open => Len(outcomes) = Len(want)
       /\ \A k, m \in 1..Len(outcomes) :
            (k < m /\ outcomes[k].v.contig = outcomes[m].v.contig) =>
              outcomes[k].v.pos <= outcomes[m].v.pos

\* C10 witness: an exhausted query that yielded a variant and whose index
\* answer held a line that does not overlap the region.
C10_Witness ==
  /\ seqObj.exists /\ seqObj.src = "query" /\ ~seqObj.open
  /\ Len(outcomes) >= 1
  /\ \E i \in seqObj.cand : ~Overlaps(file[i], args.region)

\* A reader is open on the file a writer made with round_qualities=false.
ReadingBack == kind = "reader" /\ writer.exists /\ ~args.round_qualities

\* What a variant reads back as: with include_likelihoods=false the genotype
\* quality and likelihoods of its calls are skipped.
ReadBackOf(v, include_likelihoods) ==
  IF include_likelihoods THEN v ELSE [v EXCEPT !.gq = "none", !.gl = "none"]

\* The pulls of iterate() gave the variants want, in order and without error,
\* and all of them once the sequence is exhausted.
Yielded(want) ==
  (seqObj.exists /\ seqObj.src = "iterate") =>
    /\ Len(outcomes) <= Len(want)
    /\ \A k \in 1..Len(outcomes) :
         outcomes[k].err = "none" /\ outcomes[k].v = want[k]
    /\ ~seqObj.open => Len(outcomes) = Len(want)

\* C11 as stated: the variants written with header H through a writer with
\* round_qualities=false read back, with any reader, under a header equal to H
\* and as the same variants in the same order, field for field.
C11_RoundTripAnyReader ==
  ReadingBack =>
    /\ fileHeader = GivenHeader
    /\ reader.exists => reader.header = GivenHeader
    /\ Yielded(args.variants)

\* C11 amended: the variants read back under a header equal to H, in the same
\* order and field for field (a missing quality or INFO or FORMAT value as
\* missing) when the reader is opened with include_likelihoods=true; a reader
\* opened with include_likelihoods=false gives the same but for the genotype
\* quality and genotype likelihoods, which read back as missing.
C11_RoundTrip ==
  ReadingBack =>
    /\ fileHeader = GivenHeader
    /\ reader.exists => reader.header = GivenHeader
    /\ Yielded([k \in 1..Len(args.variants) |->
                  ReadBackOf(args.variants[k], args.include_likelihoods)])

\* C11 witness: two variants, the first without quality and with a genotype
\* quality, the second with quality 0, were written under a header with a
\* sample and read back to the end by a reader with include_likelihoods=false.
C11_Witness ==
  /\ ReadingBack /\ reader.exists /\ ~args.include_likelihoods
  /\ GivenHeader.samples = 1
  /\ seqObj.exists /\ seqObj.src = "iterate" /\ ~seqObj.open
  /\ Len(args.variants) = 2 /\ Len(outcomes) = 2
  /\ args.variants[1].qual = Missing /\ args.variants[1].gq = "value"
  /\ args.variants[2].qual = 0 /\ args.variants[2].info = Missing
  /\ outcomes[1].v.qual = Missing /\ outcomes[1].v.info = 0
  /\ outcomes[1].v.gq = "none"
  /\ outcomes[2].v.qual = 0 /\ outcomes[2].v.info = Missing

\* The path has .vcf among its extensions.
HasVcfExtension(path) == \E i \in 1..Len(path) : path[i] = ".vcf"

\* The path without its .gz extensions.
RECURSIVE WithoutGz(_)
WithoutGz(path) ==
  IF path = <<>> THEN <<>>
  ELSE IF Head(path) = ".gz" THEN WithoutGz(Tail(path))
  ELSE <<Head(path)>> \o WithoutGz(Tail(path))

\* C12: a VcfReader or VcfWriter is the native VCF implementation exactly when
\* its path has .vcf as an extension and the record-container implementation
\* otherwise; the choice is that for the path without .gz and for the path
\* with one more .gz, .gz deciding the compression only; the native reader or
\* writer exists only under the native choice; and no operation after the
\* construction changes the choice.
C12_DispatchByExtension ==
  /\ [](dispatch.exists =>
          /\ dispatch.impl = (IF HasVcfExtension(dispatch.path) THEN "native" ELSE "container")
          /\ HasVcfExtension(dispatch.path) <=> HasVcfExtension(WithoutGz(dispatch.path))
          /\ dispatch.impl = Dispatch_select(WithoutGz(dispatch.path), VcfReader_get_extensions)
          /\ dispatch.impl = Dispatch_select(Append(dispatch.path, ".gz"), VcfWriter_get_extensions)
          /\ dispatch.compressed <=> Compressed(dispatch.path)
          /\ (kind = "reader" /\ pc = "body") => (reader.exists <=> dispatch.impl = "native")
          /\ kind = "writer" => (writer.exists <=> dispatch.impl = "native"))
  /\ [][dispatch.exists => dispatch' = dispatch]_vars

\* C12 witness: x.tfrecord.gz was opened as a record container, compressed,
\* and no native reader was made.
C12_Witness ==
  /\ dispatch.exists /\ dispatch.path = <<".tfrecord", ".gz">>
  /\ dispatch.impl = "container" /\ dispatch.compressed
  /\ kind = "reader" /\ pc = "exited" /\ ~reader.exists

\* C13: on an open writer, write(proto) with a number of genotype calls that
\* is not the number of samples of the writer's header raises
\* SerializationError and emits nothing; a write that raises leaves the output
\* as it was; so every line of the output has the column count of the header
\* and is the line of a variant with as many calls as the header has samples.
C13_SampleCountMismatch ==
  /\ [](writer.exists =>
          /\ \A k \in 1..Len(out) : out[k].cols = Columns(GivenHeader)
          /\ Len(out) = Len(args.variants)
          /\ \A k \in 1..Len(args.variants) :
               args.variants[k].calls = GivenHeader.samples
          /\ writer.writer_.state = "Open" =>
               \A p \in LifeProtos :
                 p.calls # GivenHeader.samples =>
                   LET r == NativeVcfWriter_write(writer, p)
                   IN r.err = "SerializationError" /\ r.emit = <<>> /\ r.obj = writer)
  /\ [][LifeWrite =>
          /\ raised' # "none" => (out' = out /\ writer' = writer)
          /\ raised' = "none" => Len(out') = Len(out) + 1
          /\ writer.writer_.state = "Open" => raised' \in {"none", "SerializationError"}
       ]_vars

\* C13 witness: a writer with a header of one sample has written a variant
\* with one call, a line of ten columns, and has then refused a variant.
C13_Witness ==
  /\ writer.exists /\ writer.writer_.state = "Open"
  /\ args.header = [samples |-> 1]
  /\ Len(out) = 1 /\ out[1].cols = FixedColumns + 2
  /\ args.variants[1].calls = 1
  /\ raised = "SerializationError"

\* What the k-th pull of a sequence gives an instance that runs alone on the
\* file: under iterate() the k-th line as parsed with the instance's own field
\* selection, under query(region) the k-th line that overlaps its own region.
SoloOutcome(ctx, k) ==
  LET n == IF ctx.seqObj.src = "query"
             THEN OverlappingFrom(file, ctx.args.region, 1)[k]
           ELSE k
      r == parse_record(file[n], DesiredVcfFields(ctx.args.include_likelihoods))
  IN [err |-> r.err, v |-> r.v, line |-> n]

\* The number of pulls that give something to an instance that runs alone.
SoloLength(ctx) ==
  IF ctx.seqObj.src = "query"
    THEN Len(OverlappingFrom(file, ctx.args.region, 1))
  ELSE Len(file)

\* The instance has been given what it would be given running alone.
AsAlone(ctx) ==
  ctx.seqObj.exists =>
    /\ Len(ctx.outcomes) <= SoloLength(ctx)
    /\ \A k \in 1..Len(ctx.outcomes) : ctx.outcomes[k] = SoloOutcome(ctx, k)
    /\ ~ctx.seqObj.open => Len(ctx.outcomes) = SoloLength(ctx)

\* C14: two reader instances on one file never hold the same native reader;
\* under every interleaving of their iterate, query, pull and close steps each
\* has been given what it would be given running alone; a step of one instance,
\* its close included, leaves the other instance as it is; and an instance that
\* resumes is as it was when it stopped, so open and usable if it was.
C14_IndependentReaders ==
  /\ [](/\ ~SameNative(Running, other)
        /\ AsAlone(Running)
        /\ AsAlone(other))
  /\ [][/\ Switch => (Running' = other /\ other' = Running)
        /\ (OpenReader \/ Iterate \/ LifeQuery \/ Pull \/ Close) => other' = other
        /\ (Iterate /\ ReaderState # "Closed") => raised' = "none"
       ]_vars

\* C14 witness: the waiting instance was closed in the middle of its iteration
\* and its next pull failed; the running instance, opened on the same file, has
\* iterated over both lines to the end.
C14_Witness ==
  /\ other.reader.exists /\ other.reader.reader_.state = "Closed"
  /\ Len(other.outcomes) = 1 /\ other.raised = "IOError"
  /\ reader.exists /\ ReaderState # "Closed"
  /\ reader.reader_.id # other.reader.reader_.id
  /\ seqObj.exists /\ seqObj.src = "iterate" /\ ~seqObj.open
  /\ Len(file) = 2 /\ Len(outcomes) = 2

\* C15: use_index is True unless given as False and include_likelihoods is
\* False unless given as True; the native reader is opened with index mode
\* INDEX_BASED_ON_FILENAME exactly when use_index is True and DONT_USE_INDEX
\* otherwise, and with the exclusion of the genotype quality and that of the
\* genotype likelihoods both set exactly when include_likelihoods is False,
\* both unset otherwise.
C15_OptionMapping ==
  reader.exists =>
    LET use_index == args.keywords.use_index # "False"
        include_likelihoods == args.keywords.include_likelihoods = "True"
        options == reader.reader_.options
    IN /\ args.use_index = use_index
       /\ args.include_likelihoods = include_likelihoods
       /\ options.index_mode =
            (IF use_index THEN "INDEX_BASED_ON_FILENAME" ELSE "DONT_USE_INDEX")
       /\ options.desired_format_entries.exclude_genotype_quality = ~include_likelihoods
       /\ options.desired_format_entries.exclude_genotype_likelihood = ~include_likelihoods

\* C15 witness: a reader made with no keyword argument was opened with the
\* index of the file and with both exclusions set, and its query went through.
C15_Witness ==
  /\ reader.exists
  /\ args.keywords = [use_index |-> "omitted", include_likelihoods |-> "omitted"]
  /\ reader.reader_.options.index_mode = "INDEX_BASED_ON_FILENAME"
  /\ reader.reader_.options.desired_format_entries.exclude_genotype_quality
  /\ reader.reader_.options.desired_format_entries.exclude_genotype_likelihood
  /\ ReaderState = "OpenIndexed"
  /\ seqObj.exists /\ seqObj.src = "query"

\* The native reader or writer of the instance the scope holds.
Native == IF kind = "reader" THEN reader.reader_ ELSE writer.writer_

\* C16: the __exit__ of a scope that closes its NativeVcfReader or
\* NativeVcfWriter tells the native reader or writer of exactly the exception
\* in flight (none on a normal exit); and once a scope has been left by an
\* error, the caller of the with statement sees an error, whatever the native
\* __exit__ returned, and the instance is closed.
C16_ExitForwardsNeverSuppresses ==
  /\ []((pc = "exited" /\ scopeErr # "none") =>
          /\ observed # "none"
          /\ ~InstanceOpen)
  /\ [][(ExitScope /\ InstanceOpen) =>
          /\ Native'.exc_seen = scopeErr'
          /\ Native'.state = "Closed"]_vars

\* C16 witness: a writer scope was left by the SerializationError of a write;
\* the native writer was told of it and closed, and the caller saw the error.
C16_Witness ==
  /\ kind = "writer" /\ pc = "exited"
  /\ scopeErr = "SerializationError"
  /\ writer.writer_.exc_seen = "SerializationError"
  /\ writer.writer_.state = "Closed"
  /\ observed = "SerializationError"

====
